---- MODULE Spec2Model ----
(***************************************************************************)
(* Model of scripts/fetch_videos.py: the module-level configuration load,  *)
(* the three YouTube Data API requests of main(), the duration parser, the *)
(* selection loop that drops Shorts, and the write of docs/videos.json.    *)
(*                                                                         *)
(* Strings that the program inspects character by character (the ISO 8601  *)
(* duration tokens) are sequences of one-character strings.                *)
(***************************************************************************)
EXTENDS Integers, Sequences, FiniteSets, TLC

VARIABLES
    pc,         \* position of the run in the script
    env,        \* which of the two environment variables are set
    prev,       \* docs/videos.json as it was before the run
    file,       \* docs/videos.json now
    log,        \* external steps issued so far (requests and the file open)
    items,      \* playlist_data["items"] (main, line 83)
    durations,  \* {video_id: seconds} (main, line 87)
    i,          \* index (1-based) of the next item of the for loop of line 91
    videos,     \* the list built by the loop (line 90)
    output,     \* the dict of lines 123-127
    tok,        \* argument of parse_duration_seconds when run on its own
    res         \* its return value

vars == <<pc, env, prev, file, log, items, durations, i, videos, output, tok, res>>

(***************************************************************************)
(* Bounds of the model                                                     *)
(***************************************************************************)
MaxItems  == 5   \* longest playlist page the model draws (the code asks for 20)
MaxTokLen == 5   \* longest arbitrary duration token given to the parser
MaxDigits == 2   \* longest digit run in a structured duration token

(***************************************************************************)
(* Program constants                                                       *)
(***************************************************************************)
MAX_VIDEOS    == 3
SHORT_SECONDS == 60

Ids   == {"A", "B"}
Times == {0, 1}
Now   == "utcnow"

\* docs/videos.json: missing, left by an earlier run, emptied by open(.., "w"),
\* holding a part of a document, or holding a whole document
NoOutput   == [updated |-> "never"]
NoFile     == [kind |-> "absent",    doc |-> NoOutput]
OldFile    == [kind |-> "previous",  doc |-> NoOutput]
Truncated  == [kind |-> "truncated", doc |-> NoOutput]
Partial    == [kind |-> "partial",   doc |-> NoOutput]
Written(d) == [kind |-> "written",   doc |-> d]
NotRun     == "not run"

(***************************************************************************)
(* parse_duration_seconds                                                  *)
(***************************************************************************)
Digits == {"0", "1", "2", "3", "4", "5", "6", "7", "8", "9"}

DigitVal(c) ==
    CASE c = "0" -> 0 [] c = "1" -> 1 [] c = "2" -> 2 [] c = "3" -> 3
      [] c = "4" -> 4 [] c = "5" -> 5 [] c = "6" -> 6 [] c = "7" -> 7
      [] c = "8" -> 8 [] c = "9" -> 9

\* int(text or 0) on a run of digits; the empty group counts as 0
RECURSIVE ToInt(_)
ToInt(text) ==
    IF text = <<>> THEN 0
    ELSE 10 * ToInt(SubSeq(text, 1, Len(text) - 1)) + DigitVal(text[Len(text)])

\* how many digits \d+ consumes from position pos
RECURSIVE DigitRun(_, _)
DigitRun(s, pos) ==
    IF pos <= Len(s) /\ s[pos] \in Digits THEN 1 + DigitRun(s, pos + 1) ELSE 0

\* one optional group (?:(\d+)L)? tried at position pos
Group(s, pos, letter) ==
    LET n == DigitRun(s, pos) IN
    IF n >= 1 /\ pos + n <= Len(s) /\ s[pos + n] = letter
    THEN [text |-> SubSeq(s, pos, pos + n - 1), next |-> pos + n + 1]
    ELSE [text |-> <<>>, next |-> pos]

\* re.match anchors the pattern at the start of the string only
HasLead(s) == Len(s) >= 2 /\ s[1] = "P" /\ s[2] = "T"

\* variant: minutes are not scaled
Seconds_NoMinuteFactor(hours, minutes, seconds) == hours * 3600 + minutes + seconds

\* line 42
Seconds(hours, minutes, seconds) == hours * 3600 + minutes * 60 + seconds

parse_duration_seconds(duration_str) ==
    IF ~HasLead(duration_str) THEN 0
    ELSE LET h == Group(duration_str, 3, "H")
             m == Group(duration_str, h.next, "M")
             s == Group(duration_str, m.next, "S")
         IN  Seconds(ToInt(h.text), ToInt(m.text), ToInt(s.text))

(***************************************************************************)
(* Data drawn from the remote API                                          *)
(***************************************************************************)
\* a playlist item: snippet.resourceId.videoId and snippet.publishedAt
\* (snippet.title is copied to the output untouched and is left out)
Item == [videoId : Ids, publishedAt : Times]

SeqsUpTo(S, n) == UNION {[1..k -> S] : k \in 0..n}

\* contentDetails.duration values the videos endpoint answers with: 45 s, 60 s, 61 s
DurTokens == { <<"P", "T", "4", "5", "S">>,
               <<"P", "T", "1", "M">>,
               <<"P", "T", "1", "M", "1", "S">> }

\* the videos endpoint answers for some of the identifiers, one entry each
DurationResponses == UNION {[D -> DurTokens] : D \in SUBSET Ids}

Call(step, ids) == [step |-> step, ids |-> ids]

(***************************************************************************)
(* Helpers of main                                                         *)
(***************************************************************************)
\* line 86
VideoIds(its) == [k \in 1..Len(its) |-> its[k].videoId]

\* lines 56-61
BuildDurations(resp) == [id \in DOMAIN resp |-> parse_duration_seconds(resp[id])]

\* durations.get(video_id, 0), line 94
DurationOf(durs, id) == IF id \in DOMAIN durs THEN durs[id] ELSE 0

\* variant: the threshold itself passes as a long video
IsShort_Strict(duration) == duration < SHORT_SECONDS

\* the test of line 96
IsShort(duration) == duration <= SHORT_SECONDS

\* lines 102-103: the day, month and year of the timestamp; the time of day is
\* dropped (two timestamps of the model fall on each day)
FormatDate(date_raw) == date_raw \div 2

\* lines 105-112; src is the position in items of the item the entry was built
\* from, kept to state the claims and not part of the JSON document
Video(item, duration, k) ==
    [ src       |-> k,
      id        |-> item.videoId,
      date      |-> FormatDate(item.publishedAt),
      duration  |-> duration,
      thumbnail |-> <<"https://img.youtube.com/vi/", item.videoId, "/hqdefault.jpg">>,
      url       |-> <<"https://www.youtube.com/watch?v=", item.videoId>> ]

\* variant: new entries go to the front of the list
AppendVideo_Front(vs, v) == <<v>> \o vs

\* videos.append(...), line 105
AppendVideo(vs, v) == Append(vs, v)

\* variant: the loop stops one entry late
Enough_OffByOne(vs) == Len(vs) > MAX_VIDEOS + 1

\* the test of line 115
Enough(vs) == Len(vs) >= MAX_VIDEOS + 1

\* variant: the last entry is featured
Featured_Last(vs) == vs[Len(vs)]

\* line 125
Featured(vs) == vs[1]

\* variant: the history starts at the featured entry
History_All(vs) == vs

\* line 126
History(vs) == SubSeq(vs, 2, Len(vs))

\* lines 123-127
BuildOutput(vs) == [updated |-> Now, featured |-> Featured(vs), history |-> History(vs)]

\* an uncaught exception ends the run; the state names the statement that raised
Aborted == {"abort_config", "abort_channel", "abort_playlist", "abort_durations",
            "abort_date", "abort_makedirs", "abort_open", "abort_dump"}

(***************************************************************************)
(* The run                                                                 *)
(***************************************************************************)
Init ==
    /\ pc = "import"
    /\ env \in [key : BOOLEAN, channel : BOOLEAN]
    /\ prev \in {NoFile, OldFile}
    /\ file = prev
    /\ log = <<>>
    /\ items = <<>>
    /\ durations = <<>>
    /\ i = 1
    /\ videos = <<>>
    /\ output = NoOutput
    /\ tok = <<>>
    /\ res = NotRun

\* variant: only the API key is looked up at load time
ConfigLoaded_KeyOnly(e) == e.key

\* lines 19-20 and 139-140: os.environ[...] raises KeyError for a missing name
\* while the module is loading, before main() is called
ConfigLoaded(e) == e.key /\ e.channel

LoadConfig ==
    /\ pc = "import"
    /\ pc' = IF ConfigLoaded(env) THEN "channel" ELSE "abort_config"
    /\ UNCHANGED <<env, prev, file, log, items, durations, i, videos, output, tok, res>>

\* lines 66-74: the request fails, or answers without items[0] (IndexError or
\* KeyError), or yields the uploads playlist
FetchChannel ==
    /\ pc = "channel"
    /\ log' = Append(log, Call("channels", <<>>))
    /\ \E outcome \in {"error", "no_channel", "ok"} :
          pc' = IF outcome = "ok" THEN "playlist" ELSE "abort_channel"
    /\ UNCHANGED <<env, prev, file, items, durations, i, videos, output, tok, res>>

\* variant: the output file is opened for writing before the request is made
FetchPlaylist_OpensFile ==
    /\ pc = "playlist"
    /\ log' = Append(log, Call("playlistItems", <<>>))
    /\ file' = Truncated
    /\ \/ /\ pc' = "abort_playlist"
          /\ UNCHANGED items
       \/ /\ items' \in SeqsUpTo(Item, MaxItems)
          /\ pc' = "durations"
    /\ UNCHANGED <<env, prev, durations, i, videos, output, tok, res>>

\* lines 77-83
FetchPlaylist ==
    /\ pc = "playlist"
    /\ log' = Append(log, Call("playlistItems", <<>>))
    /\ \/ /\ pc' = "abort_playlist"
          /\ UNCHANGED items
       \/ /\ items' \in SeqsUpTo(Item, MaxItems)
          /\ pc' = "durations"
    /\ UNCHANGED <<env, prev, file, durations, i, videos, output, tok, res>>

\* variant: one request per item instead of one for all
GetVideoDurations_PerItem ==
    /\ pc = "durations"
    /\ log' = log \o [k \in 1..Len(items) |-> Call("videos", <<items[k].videoId>>)]
    /\ \/ /\ pc' = "abort_durations"
          /\ UNCHANGED durations
       \/ /\ \E resp \in DurationResponses : durations' = BuildDurations(resp)
          /\ pc' = "loop"
    /\ UNCHANGED <<env, prev, file, items, i, videos, output, tok, res>>

\* lines 86-87 and 45-61: one request for the identifiers of all items
GetVideoDurations ==
    /\ pc = "durations"
    /\ log' = Append(log, Call("videos", VideoIds(items)))
    /\ \/ /\ pc' = "abort_durations"
          /\ UNCHANGED durations
       \/ /\ \E resp \in DurationResponses : durations' = BuildDurations(resp)
          /\ pc' = "loop"
    /\ UNCHANGED <<env, prev, file, items, i, videos, output, tok, res>>

\* lines 91-98: a Short is reported and skipped
LoopSkipShort ==
    /\ pc = "loop"
    /\ i <= Len(items)
    /\ IsShort(DurationOf(durations, items[i].videoId))
    /\ i' = i + 1
    /\ UNCHANGED <<pc, env, prev, file, log, items, durations, videos, output, tok, res>>

\* lines 100-116: a long video is built and appended; the loop breaks once
\* there are enough
LoopAppend ==
    /\ pc = "loop"
    /\ i <= Len(items)
    /\ LET duration == DurationOf(durations, items[i].videoId) IN
       /\ ~IsShort(duration)
       /\ videos' = AppendVideo(videos, Video(items[i], duration, i))
    /\ i' = i + 1
    /\ pc' = IF Enough(videos') THEN "after" ELSE "loop"
    /\ UNCHANGED <<env, prev, file, log, items, durations, output, tok, res>>

\* line 102: datetime.fromisoformat raises ValueError on a timestamp it cannot
\* read; only long videos get that far
LoopDateError ==
    /\ pc = "loop"
    /\ i <= Len(items)
    /\ ~IsShort(DurationOf(durations, items[i].videoId))
    /\ pc' = "abort_date"
    /\ UNCHANGED <<env, prev, file, log, items, durations, i, videos, output, tok, res>>

\* the for loop of line 91 runs out of items
LoopExit ==
    /\ pc = "loop"
    /\ i > Len(items)
    /\ pc' = "after"
    /\ UNCHANGED <<env, prev, file, log, items, durations, i, videos, output, tok, res>>

\* lines 118-120
NoVideos(vs) == Len(vs) = 0

\* variant: an empty document is written when nothing qualifies
ReturnNoVideos_WritesEmpty ==
    /\ pc = "after"
    /\ NoVideos(videos)
    /\ file' = Written([updated |-> Now, history |-> <<>>])
    /\ pc' = "returned"
    /\ UNCHANGED <<env, prev, log, items, durations, i, videos, output, tok, res>>

ReturnNoVideos ==
    /\ pc = "after"
    /\ NoVideos(videos)
    /\ pc' = "returned"
    /\ UNCHANGED <<env, prev, file, log, items, durations, i, videos, output, tok, res>>

\* lines 123-127
MakeOutput ==
    /\ pc = "after"
    /\ ~NoVideos(videos)
    /\ output' = BuildOutput(videos)
    /\ pc' = "makedirs"
    /\ UNCHANGED <<env, prev, file, log, items, durations, i, videos, tok, res>>

\* line 129
MakeDirs ==
    /\ pc = "makedirs"
    /\ \/ pc' = "abort_makedirs"
       \/ pc' = "open"
    /\ UNCHANGED <<env, prev, file, log, items, durations, i, videos, output, tok, res>>

\* line 130: open(OUTPUT, "w") creates the file or empties it
OpenOutput ==
    /\ pc = "open"
    /\ log' = Append(log, Call("write", <<>>))
    /\ \/ /\ pc' = "abort_open"
          /\ UNCHANGED file
       \/ /\ file' = Truncated
          /\ pc' = "dump"
    /\ UNCHANGED <<env, prev, items, durations, i, videos, output, tok, res>>

\* line 131: json.dump writes the document; an I/O error on the way leaves
\* a part of it
DumpOutput ==
    /\ pc = "dump"
    /\ \/ /\ file' = Partial
          /\ pc' = "abort_dump"
       \/ /\ file' = Written(output)
          /\ pc' = "done"
    /\ UNCHANGED <<env, prev, log, items, durations, i, videos, output, tok, res>>

Next ==
    \/ LoadConfig
    \/ FetchChannel
    \/ FetchPlaylist
    \/ GetVideoDurations
    \/ LoopSkipShort
    \/ LoopAppend
    \/ LoopDateError
    \/ LoopExit
    \/ ReturnNoVideos
    \/ MakeOutput
    \/ MakeDirs
    \/ OpenOutput
    \/ DumpOutput

Spec == Init /\ [][Next]_vars

(***************************************************************************)
(* parse_duration_seconds run on its own, on every token of a bounded set  *)
(***************************************************************************)
Alphabet == {"P", "T", "H", "M", "S", "1", "2", "X"}

ModelDigits == Alphabet \cap Digits

\* a component of a structured token: nothing, or digits followed by its letter
Components(letter) ==
    {<<>>} \cup {Append(d, letter) : d \in SeqsUpTo(ModelDigits, MaxDigits) \ {<<>>}}

StructuredTokens ==
    {<<"P", "T">> \o h \o m \o sec :
        h \in Components("H"), m \in Components("M"), sec \in Components("S")}

Tokens == SeqsUpTo(Alphabet, MaxTokLen) \cup StructuredTokens

InitParse ==
    /\ pc = "parser"
    /\ tok \in Tokens
    /\ res = NotRun
    /\ env = [key |-> TRUE, channel |-> TRUE]
    /\ prev = NoFile
    /\ file = NoFile
    /\ log = <<>>
    /\ items = <<>>
    /\ durations = <<>>
    /\ i = 1
    /\ videos = <<>>
    /\ output = NoOutput

\* lines 31-42
ParseCall ==
    /\ pc = "parser"
    /\ res' = parse_duration_seconds(tok)
    /\ pc' = "parsed"
    /\ UNCHANGED <<env, prev, file, log, items, durations, i, videos, output, tok>>

NextParse == ParseCall

SpecParse == InitParse /\ [][NextParse]_vars

(***************************************************************************)
(* Reference definitions used to state the properties                      *)
(***************************************************************************)
Min(a, b) == IF a <= b THEN a ELSE b

IsPrefix(a, b) == Len(a) <= Len(b) /\ a = SubSeq(b, 1, Len(a))

Steps(l) == [k \in 1..Len(l) |-> l[k].step]

Requests == <<"channels", "playlistItems", "videos">>
Order    == Requests \o <<"write">>

\* item k is known to the duration index with more than 60 seconds
Qualifies(its, durs, k) ==
    its[k].videoId \in DOMAIN durs /\ durs[its[k].videoId] > 60

\* the positions of the qualifying items among the first n, in input order
RECURSIVE QualUpTo(_, _, _)
QualUpTo(its, durs, n) ==
    IF n = 0 THEN <<>>
    ELSE LET r == QualUpTo(its, durs, n - 1)
         IN  IF Qualifies(its, durs, n) THEN Append(r, n) ELSE r

QualIdx == QualUpTo(items, durations, Len(items))

\* filter, keep the order, take the first want
RefPicked(want) == SubSeq(QualIdx, 1, Min(want, Len(QualIdx)))

Srcs(vs) == [k \in 1..Len(vs) |-> vs[k].src]

OutVideos(doc) == <<doc.featured>> \o doc.history

HasDoc == file.kind = "written"

LoopOver == pc \in {"after", "returned", "makedirs", "open", "dump", "done",
                    "abort_makedirs", "abort_open", "abort_dump"}

DurationsFetched == LoopOver \/ pc \in {"loop", "abort_date"}

PublishedAt(v) == items[v.src].publishedAt

NewestFirst(its) ==
    \A a, b \in 1..Len(its) : a < b => its[a].publishedAt >= its[b].publishedAt

(***************************************************************************)
(* C1: every video of the output has its identifier in the duration index  *)
(* with more than 60 seconds; an item of exactly 60 seconds, of less, or   *)
(* missing from the index is never in the output.                          *)
(***************************************************************************)
LongAndKnown(v) ==
    /\ v.src \in 1..Len(items)
    /\ v.id = items[v.src].videoId
    /\ v.id \in DOMAIN durations
    /\ durations[v.id] > 60
    /\ v.duration = durations[v.id]

C1_OnlyLongVideos ==
    /\ \A k \in 1..Len(videos) : LongAndKnown(videos[k])
    /\ HasDoc =>
          /\ \A k \in 1..Len(OutVideos(file.doc)) : LongAndKnown(OutVideos(file.doc)[k])
          /\ \A j \in 1..Len(items) :
                ~Qualifies(items, durations, j) =>
                    \A k \in 1..Len(OutVideos(file.doc)) : OutVideos(file.doc)[k].src # j

\* a document was written, and an item of exactly 60 seconds that came before
\* the featured video was passed over
C1_Witness ==
    /\ HasDoc
    /\ \E j \in 1..Len(items) :
          /\ j < file.doc.featured.src
          /\ items[j].videoId \in DOMAIN durations
          /\ durations[items[j].videoId] = 60
    /\ Len(file.doc.history) >= 1

(***************************************************************************)
(* C2: the history of every output has at most MAX_VIDEOS entries, also    *)
(* when more than MAX_VIDEOS + 1 items qualify.                            *)
(***************************************************************************)
C2_HistoryBounded ==
    /\ pc \in {"makedirs", "open", "dump", "done"} => Len(output.history) <= 3
    /\ HasDoc => Len(file.doc.history) <= 3

C2_Witness ==
    /\ HasDoc
    /\ Len(QualIdx) > MAX_VIDEOS + 1
    /\ Len(file.doc.history) = MAX_VIDEOS

(***************************************************************************)
(* C3: the selection equals "filter the items with more than 60 seconds,   *)
(* keep the order, take the first MAX_VIDEOS + 1"; the first is featured   *)
(* and the others are the history.                                         *)
(***************************************************************************)
C3_MatchesReference ==
    /\ LoopOver =>
          /\ Srcs(videos) = RefPicked(3 + 1)
          /\ \A k \in 1..Len(videos) : LongAndKnown(videos[k])
    /\ HasDoc =>
          /\ Srcs(OutVideos(file.doc)) = RefPicked(3 + 1)
          /\ file.doc.featured = videos[1]
          /\ file.doc.history = Tail(videos)

\* the shape of the example: short, long, long, short gives the second item
\* as featured and the third as the only history entry
C3_Witness ==
    /\ HasDoc
    /\ Len(items) = 4
    /\ QualIdx = <<2, 3>>
    /\ file.doc.featured.src = 2
    /\ Srcs(file.doc.history) = <<3>>

(***************************************************************************)
(* C4 as stated: in every output the featured video is at least as recent  *)
(* as every history entry and the history is in strictly decreasing order  *)
(* of publish time.                                                        *)
(***************************************************************************)
C4_AsStated ==
    HasDoc =>
        LET h == file.doc.history IN
        /\ \A k \in 1..Len(h) : PublishedAt(file.doc.featured) >= PublishedAt(h[k])
        /\ \A a, b \in 1..Len(h) : a < b => PublishedAt(h[a]) > PublishedAt(h[b])

(***************************************************************************)
(* C4 amended: main keeps the order of the playlist page. When the page is *)
(* newest first (publish times never increase along it), the featured      *)
(* video is at least as recent as every history entry and the publish      *)
(* times never increase along the history; two history entries with the    *)
(* same publish time stay next to each other.                              *)
(***************************************************************************)
C4_OrderPreserved ==
    HasDoc =>
        LET out == OutVideos(file.doc) IN
        /\ \A a, b \in 1..Len(out) : a < b => out[a].src < out[b].src
        /\ NewestFirst(items) =>
              \A a, b \in 1..Len(out) : a < b => PublishedAt(out[a]) >= PublishedAt(out[b])

C4_Witness ==
    /\ HasDoc
    /\ NewestFirst(items)
    /\ Len(file.doc.history) >= 2
    /\ PublishedAt(file.doc.history[1]) = PublishedAt(file.doc.history[2])
    /\ PublishedAt(file.doc.featured) > PublishedAt(file.doc.history[1])

(***************************************************************************)
(* C5 as stated: in every output the identifiers of the featured video and *)
(* of the history entries are pairwise distinct.                           *)
(***************************************************************************)
C5_AsStated ==
    HasDoc =>
        LET out == OutVideos(file.doc) IN
        \A a, b \in 1..Len(out) : a # b => out[a].id # out[b].id

(***************************************************************************)
(* C5 amended: main does not remove duplicates. When no two qualifying     *)
(* items of the playlist page share an identifier, the identifiers of the  *)
(* output are pairwise distinct.                                           *)
(***************************************************************************)
C5_DistinctIfInputDistinct ==
    (/\ HasDoc
     /\ \A a, b \in 1..Len(QualIdx) :
           a # b => items[QualIdx[a]].videoId # items[QualIdx[b]].videoId)
    => LET out == OutVideos(file.doc) IN
       \A a, b \in 1..Len(out) : a # b => out[a].id # out[b].id

\* a page of two long videos with different identifiers
C5_Witness ==
    /\ HasDoc
    /\ Len(file.doc.history) = 1
    /\ file.doc.featured.id # file.doc.history[1].id
    /\ Len(items) = 2

(***************************************************************************)
(* C6: the output file is written at most once, only after the three       *)
(* requests have succeeded and every selected item has been built; when a  *)
(* request or a processing step fails the file is as it was before the run.*)
(***************************************************************************)
C6_WriteOnceAfterAll ==
    /\ Cardinality({k \in 1..Len(log) : log[k].step = "write"}) <= 1
    /\ file # prev =>
          /\ Steps(log) = Order
          /\ pc \in {"dump", "done", "abort_dump"}
          /\ Srcs(videos) = RefPicked(3 + 1)
          /\ videos # <<>>
          /\ output.featured = videos[1]
          /\ output.history = Tail(videos)
    /\ HasDoc => file.doc = output /\ pc = "done"
    /\ pc \in {"abort_config", "abort_channel", "abort_playlist", "abort_durations",
               "abort_date"} => file = prev /\ (\A k \in 1..Len(log) : log[k].step # "write")

\* the run failed while building the second selected item: the file of the
\* earlier run is untouched
C6_Witness ==
    /\ pc = "abort_date"
    /\ Len(videos) = 1
    /\ prev = OldFile
    /\ file = OldFile

(***************************************************************************)
(* C7: when no fetched item qualifies, main returns without an error and   *)
(* without writing: the file of an earlier run is unchanged and no file is *)
(* created.                                                                *)
(***************************************************************************)
C7_NoQualifyingNoWrite ==
    (DurationsFetched /\ QualIdx = <<>>) =>
        /\ pc \in {"loop", "after", "returned"}
        /\ pc = "after" => videos = <<>>
        /\ file = prev
        /\ Steps(log) = Requests

C7_Witness ==
    /\ pc = "returned"
    /\ Len(items) >= 2
    /\ \E j \in 1..Len(items) : items[j].videoId \notin DOMAIN durations
    /\ \E j \in 1..Len(items) :
          items[j].videoId \in DOMAIN durations /\ durations[items[j].videoId] = 60
    /\ file = OldFile

(***************************************************************************)
(* C9: the external steps happen in the order channel request, playlist    *)
(* request, durations request, file write, each at most once and each only *)
(* after the one before it succeeded; the durations of all fetched items   *)
(* come from one request.                                                  *)
(***************************************************************************)
C9_StepOrder ==
    /\ IsPrefix(Steps(log), Order)
    /\ \A k \in 1..Len(log) : log[k].step = "videos" => log[k].ids = VideoIds(items)
    /\ pc \in {"import", "channel", "abort_config"} => log = <<>>
    /\ pc \in {"playlist", "abort_channel"} => Len(log) = 1
    /\ pc \in {"durations", "abort_playlist"} => Len(log) = 2
    /\ pc \in {"loop", "after", "returned", "makedirs", "open",
               "abort_durations", "abort_date", "abort_makedirs"} => Len(log) = 3
    /\ pc \in {"dump", "done", "abort_open", "abort_dump"} => Len(log) = 4

C9_Witness ==
    /\ pc = "done"
    /\ Steps(log) = Order
    /\ Len(items) >= 3
    /\ log[3].ids = VideoIds(items)

(***************************************************************************)
(* C10: when the API key or the channel identifier is missing from the     *)
(* environment, the run fails before any request is made and before any    *)
(* file is written.                                                        *)
(***************************************************************************)
C10_ConfigFirst ==
    (~env.key \/ ~env.channel) =>
        /\ pc \in {"import", "abort_config"}
        /\ log = <<>>
        /\ file = prev

C10_Witness ==
    /\ pc = "abort_config"
    /\ env.key
    /\ ~env.channel

(***************************************************************************)
(* Reference reading of a duration token: the lead marker PT, then an      *)
(* optional hours component, an optional minutes component and an optional *)
(* seconds component, and nothing else.                                    *)
(***************************************************************************)
IsComp(c, letter) ==
    \/ c = <<>>
    \/ /\ Len(c) >= 2
       /\ c[Len(c)] = letter
       /\ \A k \in 1..(Len(c) - 1) : c[k] \in Digits

Splits(t) ==
    {sp \in (2..Len(t)) \X (2..Len(t)) :
        /\ sp[1] <= sp[2]
        /\ IsComp(SubSeq(t, 3, sp[1]), "H")
        /\ IsComp(SubSeq(t, sp[1] + 1, sp[2]), "M")
        /\ IsComp(SubSeq(t, sp[2] + 1, Len(t)), "S")}

WellFormed(t) ==
    /\ Len(t) >= 2
    /\ t[1] = "P"
    /\ t[2] = "T"
    /\ Splits(t) # {}

\* decimal value of the digits of a component, read from the left
RECURSIVE Decimal(_, _)
Decimal(c, acc) ==
    IF c = <<>> \/ Head(c) \notin Digits THEN acc
    ELSE Decimal(Tail(c), 10 * acc + DigitVal(Head(c)))

RefValue(t) ==
    LET sp == CHOOSE x \in Splits(t) : TRUE
    IN  3600 * Decimal(SubSeq(t, 3, sp[1]), 0)
        + 60 * Decimal(SubSeq(t, sp[1] + 1, sp[2]), 0)
        + Decimal(SubSeq(t, sp[2] + 1, Len(t)), 0)

WellFormedPrefixes(t) == {n \in 0..Len(t) : WellFormed(SubSeq(t, 1, n))}

LongestPrefix(t) ==
    SubSeq(t, 1, CHOOSE n \in WellFormedPrefixes(t) : \A m \in WellFormedPrefixes(t) : m <= n)

(***************************************************************************)
(* C8 as stated: parse_duration_seconds returns h*3600 + m*60 + s for a    *)
(* token made of the lead marker and hour, minute and second components,   *)
(* missing ones counting 0, and returns 0 for every token that is not of   *)
(* that form.                                                              *)
(***************************************************************************)
C8_AsStated ==
    pc = "parsed" => res = IF WellFormed(tok) THEN RefValue(tok) ELSE 0

(***************************************************************************)
(* C8 amended: parse_duration_seconds never fails; a token of the form     *)
(* gives h*3600 + m*60 + s with missing components counting 0; a token     *)
(* that does not start with the lead marker gives 0; a token that starts   *)
(* with the lead marker gives the value of its longest leading part that   *)
(* is of the form, whatever follows it being ignored (0 when no component  *)
(* follows the marker).                                                    *)
(***************************************************************************)
C8_PrefixValue ==
    pc = "parsed" =>
        /\ res \in Nat
        /\ WellFormed(tok) => res = RefValue(tok)
        /\ WellFormedPrefixes(tok) = {} => res = 0
        /\ WellFormedPrefixes(tok) # {} => res = RefValue(LongestPrefix(tok))

C8_Witness ==
    /\ pc = "parsed"
    /\ tok = <<"P", "T", "1", "H", "2", "M", "1", "2", "S">>
    /\ res = 3732

====
